---------------------------- MODULE Spec2Model ----------------------------
(***************************************************************************)
(* Model of src/directory.js: the directory-listing handler getB2Directory *)
(* of a Cloudflare worker in front of a Backblaze B2 bucket, and the pure  *)
(* helpers it renders the listing with.                                    *)
(*                                                                         *)
(* Strings are sequences of one-character strings, so that the regular     *)
(* expressions, substring, split and replace of the source are computed    *)
(* character by character.                                                 *)
(*                                                                         *)
(* Byte counts go up to 2^40 and beyond, past TLC's 32-bit integers: a     *)
(* byte count n is the pair <<hi, lo>> with n = hi * 2^20 + lo and         *)
(* 0 <= lo < 2^20 (JavaScript numbers are exact up to 2^53).               *)
(*                                                                         *)
(* Not modelled, because no property below reads them: the icon table of   *)
(* HTML_LINE_ITEM (a row keeps only the family "up" / "folder" / "file"),  *)
(* the upload date, the exact-size tooltip, and the literal markup of the  *)
(* templates (a row or page is the record of the values the template       *)
(* inserts, each at its place).                                            *)
(***************************************************************************)
EXTENDS Integers, Sequences, FiniteSets, TLC

VARIABLES
    pc,          \* position of the handler: "idle", "awaitFetch", "done"
    request,     \* the inbound request: [hostname, pathname]
    fetchCount,  \* outbound b2_list_file_names calls made for this request
    b2Response,  \* the provider's response to the listing call
    renderCalls, \* invocations of convertListFileNamesToHTML for this request
    result       \* the Response getB2Directory returned

vars == <<pc, request, fetchCount, b2Response, renderCalls, result>>

---------------------------------------------------------------------------
\* Bounds of the model.

\* longest provider listing ("files" array) that is enumerated
MaxFiles == 3

\* byte counts are taken within this distance of each unit threshold
SizeSpread == 12

---------------------------------------------------------------------------
\* Strings

Slash == "/"
Dot == "."

\* s.startsWith(p)
StartsWith(s, p) ==
    /\ Len(p) <= Len(s)
    /\ SubSeq(s, 1, Len(p)) = p

\* s.endsWith(p)
EndsWith(s, p) ==
    /\ Len(p) <= Len(s)
    /\ SubSeq(s, Len(s) - Len(p) + 1, Len(s)) = p

\* String.prototype.substring(k) for 0 <= k: the characters from offset k on,
\* the empty string when k >= length.
Substring(s, k) == SubSeq(s, k + 1, Len(s))

\* String.prototype.split('/'): the segments between slashes, empty ones kept
RECURSIVE SplitFrom(_, _, _)
SplitFrom(s, i, cur) ==
    IF i > Len(s) THEN <<cur>>
    ELSE IF s[i] = Slash THEN <<cur>> \o SplitFrom(s, i + 1, <<>>)
    ELSE SplitFrom(s, i + 1, Append(cur, s[i]))

Split(s) == SplitFrom(s, 1, <<>>)

\* decimal digits of a natural number, as String(n) prints it
Digit(d) == <<"0", "1", "2", "3", "4", "5", "6", "7", "8", "9">>[d + 1]

RECURSIVE NumToStr(_)
NumToStr(n) ==
    IF n < 10 THEN <<Digit(n)>>
    ELSE Append(NumToStr(n \div 10), Digit(n % 10))

---------------------------------------------------------------------------
\* urlToB2Path

\* The percent escapes decodeURIComponent is given here: %2F is "/", %2E is ".".
\* (Any other "%" makes decodeURIComponent throw; no pathname below has one.)
RECURSIVE decodeURIComponent(_)
decodeURIComponent(s) ==
    IF s = <<>> THEN <<>>
    ELSE IF Len(s) >= 3 /\ SubSeq(s, 1, 3) = <<"%", "2", "F">>
         THEN <<Slash>> \o decodeURIComponent(Substring(s, 3))
    ELSE IF Len(s) >= 3 /\ SubSeq(s, 1, 3) = <<"%", "2", "E">>
         THEN <<Dot>> \o decodeURIComponent(Substring(s, 3))
    ELSE <<Head(s)>> \o decodeURIComponent(Tail(s))

\* chop off the first / character, then decode
urlToB2Path(url) == decodeURIComponent(Substring(url.pathname, 1))

---------------------------------------------------------------------------
\* getHumanReadableFileSize

KiB == 1024
MiB == 1048576

\* a byte count as <<hi, lo>>, n = hi * MiB + lo
Bytes(hi, lo) == <<hi, lo>>

\* n > m on byte counts
Gt(n, m) == n[1] > m[1] \/ (n[1] = m[1] /\ n[2] > m[2])

\* the thresholds of the comparisons
TiBThreshold == Bytes(MiB, 0)     \* 1099511627776
GiBThreshold == Bytes(KiB, 0)     \* 1073741824
MiBThreshold == Bytes(1, 0)       \* 1048576
KiBThreshold == Bytes(0, 4096)    \* 4096

\* Number.prototype.toFixed on an exactly representable quotient rounds the
\* exact value to the nearest multiple of 10^-f, the larger one on a tie.
\* ScaledQuotient(n, mult, d) = floor((mult * n + D / 2) / D) for D = d * MiB:
\* the quotient n / D in units of 1 / mult, rounded so.
ScaledQuotient(n, mult, d) ==
    IF d = 1
    THEN mult * n[1] + (mult * n[2] + MiB \div 2) \div MiB
    ELSE (mult * n[1] + d \div 2 + (mult * n[2]) \div MiB) \div d

\* (x).toFixed(1) and (x).toFixed(2), given x in tenths and in hundredths
ToFixed1(tenths) == NumToStr(tenths \div 10) \o <<Dot, Digit(tenths % 10)>>
ToFixed2(hundredths) ==
    NumToStr(hundredths \div 100)
        \o <<Dot, Digit((hundredths \div 10) % 10), Digit(hundredths % 10)>>

UnitOfTiB == <<" ", "T", "i", "B">>
UnitOfGiB == <<" ", "G", "i", "B">>
UnitOfMiB == <<" ", "M", "i", "B">>
UnitOfKiB == <<" ", "K", "i", "B">>
UnitOfB == <<" ", "B">>

\* SizeBranch with the MiB comparison written >= instead of >
SizeBranchReaching(numBytes) ==
    IF Gt(numBytes, TiBThreshold) THEN "TiB"
    ELSE IF Gt(numBytes, GiBThreshold) THEN "GiB"
    ELSE IF Gt(numBytes, MiBThreshold) \/ numBytes = MiBThreshold THEN "MiB"
    ELSE IF Gt(numBytes, KiBThreshold) THEN "KiB"
    ELSE "B"

\* which branch of the if-chain a byte count takes
SizeBranch(numBytes) ==
    IF Gt(numBytes, TiBThreshold) THEN "TiB"
    ELSE IF Gt(numBytes, GiBThreshold) THEN "GiB"
    ELSE IF Gt(numBytes, MiBThreshold) THEN "MiB"
    ELSE IF Gt(numBytes, KiBThreshold) THEN "KiB"
    ELSE "B"

getHumanReadableFileSize(numBytes) ==
    LET branch == SizeBranch(numBytes)
        asInt == numBytes[1] * MiB + numBytes[2]   \* used below MiB + 1 only
    IN  CASE branch = "TiB" ->
                ToFixed2(ScaledQuotient(numBytes, 100, MiB)) \o UnitOfTiB
          [] branch = "GiB" ->
                ToFixed2(ScaledQuotient(numBytes, 100, KiB)) \o UnitOfGiB
          [] branch = "MiB" ->
                ToFixed1(ScaledQuotient(numBytes, 10, 1)) \o UnitOfMiB
          [] branch = "KiB" ->
                ToFixed1((10 * asInt + KiB \div 2) \div KiB) \o UnitOfKiB
          [] OTHER -> NumToStr(asInt) \o UnitOfB

---------------------------------------------------------------------------
\* escapeHtml

\* String.prototype.replace(/c/g, rep)
RECURSIVE ReplaceAll(_, _, _)
ReplaceAll(s, c, rep) ==
    IF s = <<>> THEN <<>>
    ELSE (IF Head(s) = c THEN rep ELSE <<Head(s)>>) \o ReplaceAll(Tail(s), c, rep)

escapeHtml(unsafe) ==
    LET r1 == ReplaceAll(unsafe, "&", <<"&", "a", "m", "p", ";">>)
        r2 == ReplaceAll(r1, "<", <<"&", "l", "t", ";">>)
        r3 == ReplaceAll(r2, ">", <<"&", "g", "t", ";">>)
        r4 == ReplaceAll(r3, "\"", <<"&", "q", "u", "o", "t", ";">>)
    IN  ReplaceAll(r4, "'", <<"&", "#", "0", "3", "9", ";">>)

---------------------------------------------------------------------------
\* fullPathAnchors

\* globals of the worker's configuration
SITE_NAME == <<"s", "i", "t", "e">>
DIR_DOMAIN == <<"d", ".", "t">>
MAIN_DOMAIN == <<"m", ".", "t">>

\* the loop body, from 1-based index i on: one anchor per split[i], each
\* extending parent by "<segment>/"
RECURSIVE AnchorLoop(_, _, _)
AnchorLoop(split, i, parent) ==
    IF i > Len(split) - 1 THEN <<>>
    ELSE LET next == parent \o split[i] \o <<Slash>>
         IN  <<[href |-> next, label |-> split[i]]>> \o AnchorLoop(split, i + 1, next)

\* fullPathAnchors with the loop begun at the first element of split
fullPathAnchorsFromFirst(fullPath) ==
    <<[href |-> <<Slash>>, label |-> SITE_NAME]>>
        \o AnchorLoop(Split(fullPath), 1, <<Slash>>)

\* the breadcrumb, as the sequence of its anchors (the "/" between them left out)
fullPathAnchors(fullPath) ==
    <<[href |-> <<Slash>>, label |-> SITE_NAME]>>
        \o AnchorLoop(Split(fullPath), 2, <<Slash>>)

---------------------------------------------------------------------------
\* Responses

NoResponse == [type |-> "none"]

\* new Response(null, {status}) and new Response('', {status})
EmptyResponse(status) == [type |-> "empty", status |-> status, headers |-> {}]

\* the provider's response to b2_list_file_names: a status and, in its JSON
\* body, the "files" array
B2Response(status, files) == [type |-> "json", status |-> status, files |-> files]

\* Response.ok: the status is in the range 200-299
Ok(response) == response.status \in 200..299

\* The error-rewriting collaborator (./error_handling): it is given the request
\* and a response, and what it returns is the caller-facing error response.
\* Its headers are those set on it after it was returned.
rewriteErrorResponse(req, response) ==
    [type |-> "error", request |-> req, response |-> response, headers |-> {}]

\* response.headers.set(name, ...) for each name of names
SetHeaders(response, names) ==
    [response EXCEPT !.headers = @ \cup names]

---------------------------------------------------------------------------
\* HTML_LINE_ITEM, TEMPLATE_HTML_LINE_ITEM, HTML_FILE_LIST

\* the row: link goes into the href attribute as it is, basename goes into
\* the anchor's text through escapeHtml
TEMPLATE_HTML_LINE_ITEM(link, basename, sizeStr, icon) ==
    [href |-> link, icon |-> icon, text |-> escapeHtml(basename), size |-> sizeStr]

UpLink == <<Dot, Dot>>

\* "file" stands for the icon the extension table picks
HTML_LINE_ITEM(link, basename, sizeStr, action) ==
    LET icon == IF link = UpLink THEN "level-up-alt"
                ELSE IF action = "folder" THEN "folder-open"
                ELSE "file"
    IN  TEMPLATE_HTML_LINE_ITEM(link, basename, sizeStr, icon)

HTML_FILE_LIST(currentDir, fullPath, listings) ==
    [title |-> currentDir, anchors |-> fullPathAnchors(fullPath), listings |-> listings]

---------------------------------------------------------------------------
\* convertFileInfoJsonToHTML

\* the rows the call adds to the listing: none for an empty basename, else one
convertFileInfoJsonToHTML(baseUrl, file, prefixLength) ==
    LET basename == Substring(file.fileName, prefixLength)
        sizeStr == IF file.action # "folder"
                   THEN getHumanReadableFileSize(file.contentLength)
                   ELSE <<>>
    IN  IF basename = <<>> THEN <<>>
        ELSE <<HTML_LINE_ITEM(basename, basename, sizeStr, file.action)>>

---------------------------------------------------------------------------
\* convertListFileNamesToHTML

BzEmpty == <<Dot, "b", "z", "E", "m", "p", "t", "y">>

\* /(?:^|\/)\.bzEmpty$/.test(fileName)
IsBzEmpty(fileName) ==
    /\ EndsWith(fileName, BzEmpty)
    /\ \/ Len(fileName) = Len(BzEmpty)
       \/ fileName[Len(fileName) - Len(BzEmpty)] = Slash

\* IsDotFile with the pattern anchored at the start of the name only,
\* /^\.[^\/]*\/?$/
IsDotFileAtStart(fileName) ==
    /\ fileName # <<>>
    /\ fileName[1] = Dot
    /\ \A j \in 2..(Len(fileName) - 1) : fileName[j] # Slash

\* /(?:^|\/)\.[^\/]*\/?$/.test(fileName): a dot at the start or after a slash,
\* then no slash up to the end but for an optional last one
IsDotFile(fileName) ==
    \E i \in 1..Len(fileName) :
        /\ fileName[i] = Dot
        /\ i = 1 \/ fileName[i - 1] = Slash
        /\ \A j \in (i + 1)..(Len(fileName) - 1) : fileName[j] # Slash

\* the if-chain of the loop: what list a file object is pushed to
Bucket(file) ==
    IF IsBzEmpty(file.fileName) THEN "skip"
    ELSE IF IsDotFile(file.fileName) THEN "skip"
    ELSE IF file.action = "folder" THEN "folders"
    ELSE "files"

\* folders and files after the loop, as the positions in respJson.files of the
\* file objects they hold, in the order of the pushes
Pushed(respFiles, bucket) ==
    SelectSeq([i \in 1..Len(respFiles) |-> i],
              LAMBDA i : Bucket(respFiles[i]) = bucket)

\* listings += convertFileInfoJsonToHTML(baseUrl, f, prefixLength) for f of list;
\* each row is kept with src, the position in respJson.files of its file object
RECURSIVE AppendRows(_, _, _, _)
AppendRows(baseUrl, respFiles, list, prefixLength) ==
    IF list = <<>> THEN <<>>
    ELSE LET i == Head(list)
             rows == convertFileInfoJsonToHTML(baseUrl, respFiles[i], prefixLength)
         IN  [k \in 1..Len(rows) |-> [src |-> i, row |-> rows[k]]]
                 \o AppendRows(baseUrl, respFiles, Tail(list), prefixLength)

\* fullPath.match(/([^/]+)\/$/): the last segment of a path that ends in one
\* slash after a non-slash character, else '/'
CurrentDir(fullPath) ==
    IF /\ Len(fullPath) >= 2
       /\ fullPath[Len(fullPath)] = Slash
       /\ fullPath[Len(fullPath) - 1] # Slash
    THEN Split(fullPath)[Len(Split(fullPath)) - 1]
    ELSE <<Slash>>

\* EntryRows with the two loops in the other order
EntryRowsFilesFirst(requestUrl, baseFileUrl, respFiles, prefixLength) ==
    AppendRows(baseFileUrl, respFiles, Pushed(respFiles, "files"), prefixLength)
        \o AppendRows(requestUrl, respFiles, Pushed(respFiles, "folders"), prefixLength)

\* the folder rows, then the file rows
EntryRows(requestUrl, baseFileUrl, respFiles, prefixLength) ==
    AppendRows(requestUrl, respFiles, Pushed(respFiles, "folders"), prefixLength)
        \o AppendRows(baseFileUrl, respFiles, Pushed(respFiles, "files"), prefixLength)

convertListFileNamesToHTML(req, response) ==
    LET respFiles == response.files
        requestUrl == req
        baseFileUrl == [req EXCEPT !.hostname = MAIN_DOMAIN]
        fullPath == urlToB2Path(requestUrl)
        prefixLength == Len(fullPath)
        up == IF prefixLength > 0
              THEN <<[src |-> 0, row |-> HTML_LINE_ITEM(UpLink, UpLink, <<>>, "")]>>
              ELSE <<>>
        folders == Pushed(respFiles, "folders")
        files == Pushed(respFiles, "files")
    IN  IF ~(Len(folders) > 0 \/ Len(files) > 0)
        THEN rewriteErrorResponse(req, EmptyResponse(404))
        ELSE [type |-> "html",
              status |-> 200,
              headers |-> {"Content-Type"},
              body |-> HTML_FILE_LIST(
                           CurrentDir(fullPath),
                           <<Slash>> \o fullPath,
                           up \o EntryRows(requestUrl, baseFileUrl, respFiles,
                                           prefixLength))]

---------------------------------------------------------------------------
\* The inputs: inbound requests and provider responses

\* request.url: the host, and the pathname as the browser sent it: the root,
\* a/b/c/ with one separator percent-encoded, a path with a doubled
\* separator, and a path that does not end in the separator
Hostnames == {DIR_DOMAIN, MAIN_DOMAIN}

Pathnames ==
    { <<Slash>>,
      <<Slash, "a", Slash, "b", "%", "2", "F", "c", Slash>>,
      <<Slash, "a", Slash, Slash, "b", Slash>>,
      <<Slash, "a">> }

Requests == [hostname : Hostnames, pathname : Pathnames]

\* What follows the prefix in the name of a listed entry: nothing (the entry
\* is the prefix itself), a file, a folder, a dot-file, a .bzEmpty marker, a
\* name with the five characters escapeHtml replaces, and a name that runs
\* past the delimiter.
Rests ==
    { <<>>,
      <<"f">>,
      <<"d", Slash>>,
      <<Dot, "h">>,
      BzEmpty,
      <<"&", "<", ">", "\"", "'">>,
      <<Dot, "h", Slash, "e">> }

Actions == {"folder", "upload"}

\* contentLength of the file entries of a listing
ListingSize == Bytes(0, 5000)

FileInfo(fileName, action, contentLength) ==
    [fileName |-> fileName, action |-> action, contentLength |-> contentLength]

\* the entries b2_list_file_names may list for a prefix: their names begin
\* with it
Entries(prefix) ==
    { FileInfo(prefix \o r, a, IF a = "folder" THEN Bytes(0, 0) ELSE ListingSize) :
        r \in Rests, a \in Actions }

\* the listings of at most MaxFiles entries, by length
Listings(prefix, n) == [1..n -> Entries(prefix)]

FailureStatuses == {401, 500}

---------------------------------------------------------------------------
\* getB2Directory

\* WrongHost with the comparison turned round
WrongHostInverted(requestedUrl) == requestedUrl.hostname = DIR_DOMAIN

\* requestedUrl.hostname !== DIR_DOMAIN
WrongHost(requestedUrl) == requestedUrl.hostname # DIR_DOMAIN

\* From the call up to the await of fetch: the early return for another host,
\* else the one listing call is sent.
GetB2DirectoryCall(req) ==
    /\ pc = "idle"
    /\ request' = req
    /\ IF WrongHost(req)
       THEN /\ result' = rewriteErrorResponse(req, EmptyResponse(404))
            /\ fetchCount' = fetchCount
            /\ pc' = "done"
       ELSE /\ result' = NoResponse
            /\ fetchCount' = fetchCount + 1
            /\ pc' = "awaitFetch"
    /\ UNCHANGED <<b2Response, renderCalls>>

\* AfterFetch without the test of response.ok
AfterFetchUnchecked(req, response) ==
    <<SetHeaders(convertListFileNamesToHTML(req, response),
                 {"Cache-Control", "Expires"}), 1>>

\* what is returned once the listing call has answered, as
\* <<the Response, the number of calls of convertListFileNamesToHTML>>
AfterFetch(req, response) ==
    IF ~Ok(response)
    THEN <<rewriteErrorResponse(req, response), 0>>
    ELSE <<SetHeaders(convertListFileNamesToHTML(req, response),
                      {"Cache-Control", "Expires"}), 1>>

\* From the answer of fetch to the return.
GetB2DirectoryResume(response) ==
    /\ pc = "awaitFetch"
    /\ b2Response' = response
    /\ \E returned \in {AfterFetch(request, response)} :
        /\ result' = returned[1]
        /\ renderCalls' = renderCalls + returned[2]
    /\ pc' = "done"
    /\ UNCHANGED <<request, fetchCount>>

\* The worker takes the next request; nothing is kept from the last one.
NextRequest ==
    /\ pc = "done"
    /\ pc' = "idle"
    /\ request' = [hostname |-> <<>>, pathname |-> <<>>]
    /\ fetchCount' = 0
    /\ b2Response' = NoResponse
    /\ renderCalls' = 0
    /\ result' = NoResponse

Init ==
    /\ pc = "idle"
    /\ request = [hostname |-> <<>>, pathname |-> <<>>]
    /\ fetchCount = 0
    /\ b2Response = NoResponse
    /\ renderCalls = 0
    /\ result = NoResponse

Receive ==
    /\ pc = "idle"
    /\ \E req \in Requests : GetB2DirectoryCall(req)

\* the listing call answers 200 with a listing
ListingAnswers ==
    /\ pc = "awaitFetch"
    /\ \E n \in 0..MaxFiles :
        \E files \in Listings(urlToB2Path(request), n) :
            GetB2DirectoryResume(B2Response(200, files))

\* the listing call answers with a failure status
ListingFails ==
    /\ pc = "awaitFetch"
    /\ \E status \in FailureStatuses :
        GetB2DirectoryResume(B2Response(status, <<>>))

Next == Receive \/ ListingAnswers \/ ListingFails \/ NextRequest

Spec == Init /\ [][Next]_vars

---------------------------------------------------------------------------
\* The byte-size formatter on its own inputs: one listed file whose size is
\* near a unit threshold, under the root of the listing host.

\* n + d for a small d of either sign
Offset(n, d) ==
    IF n[2] + d < 0 THEN Bytes(n[1] - 1, n[2] + d + MiB) ELSE Bytes(n[1], n[2] + d)

Sizes ==
    { Offset(t, d) : t \in {KiBThreshold, MiBThreshold, GiBThreshold, TiBThreshold},
                     d \in (0 - SizeSpread)..SizeSpread }
        \cup { Bytes(0, d) : d \in 0..SizeSpread }
        \cup { Bytes(0, 5000), Bytes(4, 209715), Bytes(5 * KiB, 7), Bytes(3 * MiB, 9) }

ReceiveAtRoot ==
    /\ pc = "idle"
    /\ GetB2DirectoryCall([hostname |-> DIR_DOMAIN, pathname |-> <<Slash>>])

SizedListingAnswers ==
    /\ pc = "awaitFetch"
    /\ \E size \in Sizes :
        GetB2DirectoryResume(B2Response(200, <<FileInfo(<<"f">>, "upload", size)>>))

NextSize == ReceiveAtRoot \/ SizedListingAnswers \/ NextRequest

SpecSize == Init /\ [][NextSize]_vars

---------------------------------------------------------------------------
\* What the properties below speak of

\* the decoded path of the request in hand
FullPath == urlToB2Path(request)

\* the handler returned a 200 HTML listing
IsListing == pc = "done" /\ result.type = "html"

\* the rows of the page, and those of them that stand for a listed entry
Listing == result.body.listings
EntryPositions == { k \in 1..Len(Listing) : Listing[k].src > 0 }

\* the raw entry a row stands for, and that entry's name past the prefix
EntryOf(k) == b2Response.files[Listing[k].src]
BasenameOf(file) == Substring(file.fileName, Len(FullPath))

\* the listing call answered 200
ListingReceived == pc = "done" /\ b2Response.type = "json" /\ Ok(b2Response)

---------------------------------------------------------------------------
\* C1

\* an entry that yields no row: a .bzEmpty marker, a dot-file, or a name that
\* is empty past the prefix
YieldsNoRow(file) ==
    \/ IsBzEmpty(file.fileName)
    \/ IsDotFile(file.fileName)
    \/ BasenameOf(file) = <<>>

\* C1: for a non-empty fullPath, a listing none of whose entries yields a row
\* is answered with NotFound (the rewritten bare 404), never with a 200 page
\* without entry rows.
C1_NoRowsIsNotFound ==
    (/\ ListingReceived
     /\ FullPath # <<>>
     /\ \A i \in 1..Len(b2Response.files) : YieldsNoRow(b2Response.files[i]))
        => /\ result.type = "error"
           /\ result.response = EmptyResponse(404)

---------------------------------------------------------------------------
\* C2

Entities ==
    { <<"&", "a", "m", "p", ";">>,
      <<"&", "l", "t", ";">>,
      <<"&", "g", "t", ";">>,
      <<"&", "q", "u", "o", "t", ";">>,
      <<"&", "#", "0", "3", "9", ";">> }

\* no <, >, " or ' in s, and every & of s begins one of the five entities
IsEscaped(s) ==
    \A i \in 1..Len(s) :
        /\ s[i] \notin {"<", ">", "\"", "'"}
        /\ s[i] = "&" => \E e \in Entities : StartsWith(Substring(s, i - 1), e)

\* C2: in every entry row, both places the basename is inserted at, the link
\* text and the href attribute, hold it escaped.
C2_BasenameEscapedEverywhere ==
    IsListing =>
        \A k \in EntryPositions :
            /\ IsEscaped(Listing[k].row.text)
            /\ IsEscaped(Listing[k].row.href)

---------------------------------------------------------------------------
\* C3

IsFolderRow(k) == EntryOf(k).action = "folder"

\* C3: in the rows of a 200 page every folder-kind row comes before every
\* file-kind row, and two rows of the same kind come in the order of their
\* entries in the provider's response.
C3_FoldersFirstInProviderOrder ==
    IsListing =>
        \A j, k \in EntryPositions :
            j < k =>
                /\ IsFolderRow(k) => IsFolderRow(j)
                /\ IsFolderRow(j) = IsFolderRow(k) => Listing[j].src < Listing[k].src

\* a page with two folder rows and a file row whose entry came first in the
\* provider's response
C3_Witness ==
    /\ IsListing
    /\ \E i, j, k \in EntryPositions :
        /\ i < j /\ j < k
        /\ IsFolderRow(i) /\ IsFolderRow(j) /\ ~IsFolderRow(k)
        /\ Listing[k].src < Listing[i].src

---------------------------------------------------------------------------
\* C4

\* what the provider answers for prefix = fullPath and delimiter = "/", under
\* a fullPath that is empty or ends in the separator: every name begins with
\* fullPath and has no separator past it but, at most, as its last character
DelimitedUnder(fullPath, respFiles) ==
    /\ fullPath = <<>> \/ fullPath[Len(fullPath)] = Slash
    /\ \A i \in 1..Len(respFiles) :
        /\ StartsWith(respFiles[i].fileName, fullPath)
        /\ LET rest == Substring(respFiles[i].fileName, Len(fullPath))
           IN  \A j \in 1..(Len(rest) - 1) : rest[j] # Slash

NoEmptyOrDotBasenameRow ==
    \A k \in EntryPositions :
        /\ BasenameOf(EntryOf(k)) # <<>>
        /\ Head(BasenameOf(EntryOf(k))) # Dot

\* C4 as stated: whatever the fullPath and the raw entries, no emitted row has
\* a basename that is empty or begins with a dot.
C4_NoEmptyOrDotBasename ==
    IsListing => NoEmptyOrDotBasenameRow

\* C4 as amended: the same, for a fullPath that is empty or ends in the
\* separator and entries named as the provider names them for that prefix and
\* the delimiter "/".
C4_NoEmptyOrDotBasenameDelimited ==
    (IsListing /\ DelimitedUnder(FullPath, b2Response.files))
        => NoEmptyOrDotBasenameRow

\* a page, rendered for such a listing, that holds an entry whose basename
\* begins with a dot and an entry whose basename is empty
C4_Witness ==
    /\ IsListing
    /\ FullPath # <<>>
    /\ DelimitedUnder(FullPath, b2Response.files)
    /\ EntryPositions # {}
    /\ \E i, j \in 1..Len(b2Response.files) :
        /\ BasenameOf(b2Response.files[i]) = <<>>
        /\ BasenameOf(b2Response.files[j]) # <<>>
        /\ Head(BasenameOf(b2Response.files[j])) = Dot

---------------------------------------------------------------------------
\* C5

\* n <= m on byte counts
Le(n, m) == n[1] < m[1] \/ (n[1] = m[1] /\ n[2] <= m[2])
Lt(n, m) == Le(n, m) /\ n # m

\* the unit by the intervals of the claim
UnitByInterval(n) ==
    IF Lt(Bytes(MiB, 0), n) THEN UnitOfTiB
    ELSE IF Lt(Bytes(KiB, 0), n) /\ Le(n, Bytes(MiB, 0)) THEN UnitOfGiB
    ELSE IF Lt(Bytes(1, 0), n) /\ Le(n, Bytes(KiB, 0)) THEN UnitOfMiB
    ELSE IF Lt(Bytes(0, 4096), n) /\ Le(n, Bytes(1, 0)) THEN UnitOfKiB
    ELSE UnitOfB

---------------------------------------------------------------------------
\* C6

\* the full path as fullPathAnchors is given it
Rooted == <<Slash>> \o FullPath

EndsInSeparator == FullPath # <<>> /\ FullPath[Len(FullPath)] = Slash

Breadcrumb == result.body.anchors

\* the non-empty segments of the full path, in order
NonEmptySegments == SelectSeq(Split(FullPath), LAMBDA seg : seg # <<>>)

\* segments 1..i, each followed by a separator, under the root
RECURSIVE Cumulative(_, _)
Cumulative(segs, i) ==
    IF i = 0 THEN <<Slash>> ELSE Cumulative(segs, i - 1) \o segs[i] \o <<Slash>>

\* C6 as stated: for a fullPath ending in the separator the breadcrumb is the
\* root link and then one link per non-empty segment, labelled with the
\* segment and targeting the cumulative path of the non-empty segments up to
\* it; an empty segment gives no link.
C6_OneLinkPerNonEmptySegment ==
    (IsListing /\ EndsInSeparator) =>
        /\ Breadcrumb[1] = [href |-> <<Slash>>, label |-> SITE_NAME]
        /\ Len(Breadcrumb) = 1 + Len(NonEmptySegments)
        /\ \A i \in 1..Len(NonEmptySegments) :
            /\ Breadcrumb[i + 1].label = NonEmptySegments[i]
            /\ Breadcrumb[i + 1].href = Cumulative(NonEmptySegments, i)

\* the positions of the separators of the rooted path, ascending
SeparatorPositions ==
    SelectSeq([i \in 1..Len(Rooted) |-> i], LAMBDA i : Rooted[i] = Slash)

\* C6 as amended: for a fullPath ending in the separator the breadcrumb is the
\* root link and then one link per separator of fullPath, empty segments
\* included: the i-th link is labelled with what stands between the i-th and
\* the (i+1)-th separator of "/" + fullPath (nothing, for a doubled separator)
\* and targets "/" + fullPath cut after its (i+1)-th separator.
C6_OneLinkPerSeparator ==
    (IsListing /\ EndsInSeparator) =>
        LET rooted == Rooted
            at == SeparatorPositions
            crumbs == Breadcrumb
        IN  /\ crumbs[1] = [href |-> <<Slash>>, label |-> SITE_NAME]
            /\ Len(crumbs) = Len(at)
            /\ \A i \in 2..Len(at) :
                /\ crumbs[i].label = SubSeq(rooted, at[i - 1] + 1, at[i] - 1)
                /\ crumbs[i].href = SubSeq(rooted, 1, at[i])

\* a page for a path with a doubled separator, whose breadcrumb holds a link
\* with an empty label
C6_Witness ==
    /\ IsListing
    /\ EndsInSeparator
    /\ \E i \in 2..Len(Breadcrumb) : Breadcrumb[i].label = <<>>
    /\ \E i \in 2..Len(Breadcrumb) : Breadcrumb[i].href = Rooted

---------------------------------------------------------------------------
\* C7

\* the listing call answered with a non-2xx status
ListingFailed == pc = "done" /\ b2Response.type = "json" /\ ~Ok(b2Response)

\* C7: when the listing call answers with a non-2xx status, what is returned
\* is rewriteErrorResponse(request, the provider's response) and nothing
\* else: the renderer was not called, no page was made, no second listing
\* call was sent.
C7_FailurePassedToRewriter ==
    ListingFailed =>
        /\ result = rewriteErrorResponse(request, b2Response)
        /\ renderCalls = 0
        /\ result.type # "html"
        /\ fetchCount = 1

\* the listing call answered 401
C7_Witness ==
    /\ ListingFailed
    /\ b2Response.status = 401
    /\ result.type = "error"

---------------------------------------------------------------------------
\* C8

\* C8 as stated: every request handled has sent exactly one listing call by
\* the time a response is returned, on every path through the handler.
C8_ExactlyOneListingCall ==
    pc = "done" => fetchCount = 1

\* C8 as amended: a request for the listing host has sent exactly one listing
\* call by the time a response is returned, and never more than one at any
\* time; a request for another host is answered with the rewritten 404
\* without any listing call.
C8_OneListingCallOnListingHost ==
    /\ fetchCount <= 1
    /\ pc = "awaitFetch" => fetchCount = 1
    /\ pc = "done" =>
        IF request.hostname = DIR_DOMAIN
        THEN fetchCount = 1
        ELSE /\ fetchCount = 0
             /\ result = rewriteErrorResponse(request, EmptyResponse(404))

\* a request for another host was answered, with no listing call made
C8_Witness ==
    /\ pc = "done"
    /\ request.hostname # DIR_DOMAIN
    /\ fetchCount = 0
    /\ result.type = "error"

---------------------------------------------------------------------------
\* C9

Scheme == <<"h", "t", "t", "p", "s", ":", Slash, Slash>>

\* C9: the link of a file-kind row is absolute, on the content-serving host
\* MAIN_DOMAIN; the link of a folder-kind row is the entry's basename.
C9_FileLinksOnMainDomain ==
    IsListing =>
        \A k \in EntryPositions :
            IF IsFolderRow(k)
            THEN Listing[k].row.href = BasenameOf(EntryOf(k))
            ELSE StartsWith(Listing[k].row.href, Scheme \o MAIN_DOMAIN \o <<Slash>>)

---------------------------------------------------------------------------
\* C10

CachingHeaders == {"Cache-Control", "Expires"}

\* C10: Cache-Control and Expires are set on a 200 HTML listing only; an
\* error response (upstream failure, empty listing, other host) is returned
\* as rewriteErrorResponse made it.
C10_CachingHeadersOnListingOnly ==
    pc = "done" =>
        /\ result.type = "html" => CachingHeaders \subseteq result.headers
        /\ result.type = "error" =>
            /\ result.headers \cap CachingHeaders = {}
            /\ result = rewriteErrorResponse(request, result.response)

====
